---- MODULE Spec2Model ----
(***************************************************************************)
(* Cisalpine Engine: the frame loop of App::run, the fixed-timestep        *)
(* scheduler and double-buffered grid of World, and the render pipeline    *)
(* with its ping-pong light surfaces; the element Registry (load, the      *)
(* lookups, the generated shader header) and the startup path of main and  *)
(* App::init.                                                              *)
(*                                                                         *)
(* Time values are IEEE-754 binary32 numbers, as in the source (float).    *)
(* A time t is represented by the integer t * 2^29: 1.0f/60.0f is          *)
(* 8947849 * 2^-29 and 0.1f is 53687092 * 2^-29 exactly.  Every float      *)
(* addition and subtraction rounds its exact result to a 24-bit            *)
(* significand, ties to even (RoundF).                                     *)
(***************************************************************************)
EXTENDS Integers, Sequences, FiniteSets, TLC

\* ---------------------------------------------------------------- bounds
MaxFrames == 2          \* iterations of the frame loop that are explored
MaxStepsChoice == 1     \* the "Sim Speed" slider is moved within 1..MaxStepsChoice
MaxBounces == 2         \* the "Bounces" slider is moved within 0..MaxBounces
MaxBrushSize == 2       \* the brush "Size" slider stands within 1..MaxBrushSize
MaxHoldFrames == 3      \* iterations of the frame loop explored by SpecInput
MaxId == 2              \* element sources declare ids within -1..MaxId

\* ------------------------------------------------------ program constants
FIXED_TIMESTEP == 8947849       \* 1.0f / 60.0f, in units of 2^-29 s
DT_CLAMP == 53687092            \* 0.1f, in units of 2^-29 s
DefaultStepsPerFrame == 4       \* SimulationSettings::stepsPerFrame
DefaultLightBounces == 3        \* RenderSettings::lightBounces
pixelScale == 2
worldWidth == 2
worldHeight == 2

\* Elapsed wall-clock times between two frames (units of 2^-29 s), each an
\* exactly representable float: just under one tick, exactly one tick,
\* 0.05f, and a stall of 0.25 s (which the clamp cuts to 0.1f).
ElapsedSet == {8947848, 8947849, 26843546, 134217728}

\* Pointer positions (window pixels) read by glfwGetCursorPos.
MouseSet == {<<0, 0>>, <<1, 1>>, <<4, 1>>}

\* Pointer positions of the brush runs: the top-left pixel of the viewport,
\* pixels inside it, and the pixel right of its right edge.
BrushMouseSet == {<<0, 0>>, <<1, 1>>, <<2, 2>>, <<worldWidth * pixelScale, 1>>}

\* Element ids of the loaded registry and the ones flagged singleClick.
Elements == 0..2
SingleClickIds == {2}

\* Registries the session may have loaded, as the set of ids flagged
\* singleClick: element 2 only, or the empty element 0 as well.
RegistryFlagSets == {SingleClickIds, SingleClickIds \cup {0}}

\* ------------------------------------------------------------- textures
stateTextures == <<"state0", "state1">>     \* stateTextures[0], stateTextures[1]
colorTexture == "color"
normalTexture == "normal"
lightmapTexture == "lightmap"
lightmapPingPong == "pingpong"
displayTexture == "display"

\* Cell coordinates of the grid and the RGBA8UI texel of a cell: element id
\* in the first channel, auxiliary state in the other three.
Cells == (0..(worldWidth - 1)) \X (0..(worldHeight - 1))
EmptyCell == <<0, 0, 0, 0>>

\* std::vector<uint8_t> clearData(worldWidth * worldHeight * 4, 0)
ClearData == [c \in Cells |-> EmptyCell]

\* Contents of a light surface: glTexStorage2D allocates it and nothing
\* writes it before the first bounce that targets it, so it is either
\* unwritten (0) or holds the light written by a bounce of frame n (n).
Unwritten == 0

NoBinding == [tex |-> "none", access |-> "none"]
Binding(t, a) == [tex |-> t, access |-> a]

\* ------------------------------------------------------- float arithmetic
Pow2(n) == IF n = 24 THEN 16777216 ELSE IF n = 25 THEN 33554432
           ELSE IF n = 26 THEN 67108864 ELSE IF n = 27 THEN 134217728
           ELSE IF n = 28 THEN 268435456 ELSE IF n = 29 THEN 536870912
           ELSE 1073741824

\* Round n to a multiple of u, to nearest, ties to the even multiple.
RoundNearestEven(n, u) ==
    LET q == n \div u
        r == n % u
    IN  IF 2 * r < u THEN q * u
        ELSE IF 2 * r > u THEN (q + 1) * u
        ELSE IF q % 2 = 0 THEN q * u ELSE (q + 1) * u

\* The float nearest to the exact value n (n >= 0, in units of 2^-29 s).
RoundF(n) ==
    IF n < Pow2(24) THEN n
    ELSE IF n < Pow2(25) THEN RoundNearestEven(n, 2)
    ELSE IF n < Pow2(26) THEN RoundNearestEven(n, 4)
    ELSE IF n < Pow2(27) THEN RoundNearestEven(n, 8)
    ELSE IF n < Pow2(28) THEN RoundNearestEven(n, 16)
    ELSE IF n < Pow2(29) THEN RoundNearestEven(n, 32)
    ELSE RoundNearestEven(n, 64)

FAdd(a, b) == RoundF(a + b)
FSub(a, b) == RoundF(a - b)

\* float: once simulationTime has reached 2^21 s, adding a delta time of at
\* most 0.1f no longer changes it (the spacing of floats there is 0.25 s).
\* That value is beyond the integers of this module and is written -1.
SaturatedTime == -1
FAddTime(t, d) == IF t = SaturatedTime THEN SaturatedTime ELSE FAdd(t, d)

\* uint32_t values are written as the int32_t of the same 32 bits: 0 ..
\* 2^31 - 1 as themselves, 2^31 .. 2^32 - 1 as -2^31 .. -1.
INT32_MAX == 2147483647
UINT32_MAX == -1

\* ++ on a uint32_t: 2^32 - 1 is followed by 0.
Inc32(v) == IF v = INT32_MAX THEN (-INT32_MAX) - 1 ELSE v + 1

\* a < b between two uint32_t values
Less32(a, b) == IF (a >= 0) = (b >= 0) THEN a < b ELSE a >= 0

\* A count without a width, as <<high, low>>: high * 2^32 + low, with low
\* written like a uint32_t.  The count 0, and the count after one more.
NoSteps == <<0, 0>>
CountStep(c) ==
    IF c[2] = UINT32_MAX THEN <<c[1] + 1, 0>>
    ELSE IF c[2] = INT32_MAX THEN <<c[1], (-INT32_MAX) - 1>>
    ELSE <<c[1], c[2] + 1>>

\* Variant: the clamp is missing.
ClampDtMissing(d) == d

\* if (dt > 0.1f) dt = 0.1f;
ClampDt(d) == IF d > DT_CLAMP THEN DT_CLAMP ELSE d

\* ------------------------------------------------------------ the state
VARIABLES
    pc,                 \* position of the single thread of control
    frame,              \* iterations of the frame loop started so far
    dt,                 \* App::run local: clamped elapsed time of this frame
    accumulatedTime,    \* World::accumulatedTime
    simulationTime,     \* World::simulationTime
    frameCount,         \* World::frameCount
    currentBuffer,      \* World::currentBuffer
    stepsPerFrame,      \* World::simSettings.stepsPerFrame
    lightBounces,       \* World::renderSettingsData.lightBounces
    i,                  \* World::update local: for-loop counter
    bounces,            \* World::render local
    bounce,             \* World::render local: loop counter
    finalLightmap,      \* World::render local
    imageUnit,          \* GL image units 0..4: texture and access bound
    lastDispatch,       \* the last compute dispatch and whether its barrier was issued
    lastMousePressed,   \* App::lastMousePressed
    isDrawing,          \* App::isDrawing
    selectedElementId,  \* App::selectedElementId
    brushSize,          \* App::brushSize
    selectedBrush,      \* App::selectedBrush
    singleClickFlags,   \* Registry::singleClickFlags, as the set of flagged ids
    registry,           \* Registry::gpuData, names and nameToId
    file,               \* the element source handed to the last Registry::load
    loadLog,            \* history: table indices written by the last Registry::load
    header,             \* the text returned by the last Registry::getShaderHeader
    lookup,             \* history: the last getColor / isSingleClick call and its results
    exception,          \* what() of the exception in flight or caught by main
    exitStatus,         \* the value main returned
    programs,           \* the shaders whose programId is not 0
    stateData,          \* contents of the two state textures
    lightData,          \* contents of the two light surfaces
    glError,            \* a GL call raised an error
    input,              \* history: what the last handleInput was given and did
    uiEvent,            \* history: the widget operated in the last renderUI
    press,              \* history: the primary button in earlier frames
    phaseLog,           \* history: phases run in the current iteration
    brushLog,           \* history: brush dispatches made by handleInput in this iteration
    lightLog,           \* history: <<read, write>> light surface of each bounce of this render
    tickStats,          \* history: ticks/steps of the current update and tick
    totals              \* history: ticks and steps run, exact time handed to update

vars == <<pc, frame, dt, accumulatedTime, simulationTime, frameCount, currentBuffer,
          stepsPerFrame, lightBounces, i, bounces, bounce, finalLightmap, imageUnit,
          lastDispatch, lastMousePressed, isDrawing, selectedElementId,
          phaseLog, brushLog, lightLog, tickStats, totals,
          brushSize, selectedBrush, singleClickFlags, stateData, lightData, glError,
          input, uiEvent, press,
          registry, file, loadLog, header, lookup, exception, exitStatus,
          programs>>

worldVars == <<accumulatedTime, simulationTime, frameCount, currentBuffer>>
settingVars == <<stepsPerFrame, lightBounces>>
renderLocals == <<bounces, bounce, finalLightmap>>
inputVars == <<lastMousePressed, isDrawing, selectedElementId>>
glVars == <<imageUnit, lastDispatch>>
historyVars == <<phaseLog, brushLog, lightLog, tickStats, totals>>
registryVars == <<registry, file, loadLog, header, lookup>>
mainVars == <<exception, exitStatus, programs>>
brushVars == <<brushSize, selectedBrush, singleClickFlags, registryVars, mainVars>>
gridVars == <<stateData, glError>>
ghostVars == <<input, uiEvent, press>>
paintVars == <<brushVars, gridVars, lightData, ghostVars>>

\* ------------------------------------------------------------- Registry
\* Element names of the sources explored, in the order in which
\* nlohmann::json (a std::map) and nameToId (a std::map) iterate their keys.
KeyOrder == <<"Sand", "sand", "stone">>
Names == {KeyOrder[k] : k \in 1..Len(KeyOrder)}

\* Floats of the element table are written in hundredths: 1.0f is 100.
Magenta == <<100, 0, 100, 100>>

\* The fields each element declares besides "id": sources differ in the
\* elements they hold and in the id each one declares.
Catalogue ==
    [n \in Names |->
        IF n = "sand"
        THEN [color |-> <<76, 70, 50, 100>>, type |-> "Granular", density |-> 150]
        ELSE IF n = "stone"
        THEN [type |-> "Crystal", singleClick |-> TRUE, glow |-> TRUE, life |-> 5]
        ELSE [flammable |-> TRUE, burnChance |-> 25]]

\* The values an element may have in a source: its fields without "id", or
\* with an id in -1..MaxId.
ElementValues(n) ==
    {Catalogue[n]} \cup {Catalogue[n] @@ [id |-> k] : k \in (-1)..MaxId}

\* The parsed element sources: JSON objects from names to element values.
Sources ==
    UNION {{j \in [S -> UNION {ElementValues(n) : n \in S}] :
                \A n \in S : j[n] \in ElementValues(n)} : S \in SUBSET Names}

\* What std::ifstream and nlohmann::json::parse make of the file.
EmptyJson == [n \in {} |-> Catalogue[n]]
NoNames == [n \in {} |-> 0]
Readable(j) == [status |-> "ok", json |-> j]
Files == {[status |-> "missing", json |-> EmptyJson],
          [status |-> "malformed", json |-> EmptyJson]}
            \cup {Readable(j) : j \in Sources}

\* val.contains(k) and val.value(k, default)
Contains(val, k) == k \in DOMAIN val
Value(val, k, default) == IF Contains(val, k) THEN val[k] ELSE default

\* j.items(), as the sequence of keys in iteration order
Items(j) == SelectSeq(KeyOrder, LAMBDA k : k \in DOMAIN j)

\* Registry::parseType
ParseType(typeStr) ==
    IF typeStr = "Static" THEN 0
    ELSE IF typeStr = "Granular" THEN 1
    ELSE IF typeStr = "Liquid" THEN 2
    ELSE IF typeStr = "Gas" THEN 3
    ELSE 0

\* The defaults Registry::load gives every entry of gpuData.
DefaultElement ==
    [color |-> Magenta, type |-> 0, density |-> 0, viscosity |-> 0,
     probability |-> 0, flammability |-> 0, glow |-> 0, maxLife |-> 0,
     gemstone |-> 0, lightRadius |-> 0, lightIntensity |-> 0, ior |-> 100,
     pad |-> 0]

\* The fields Registry::load assigns to gpuData[id] from an element value.
Overlay(d, val) ==
    [color |-> Value(val, "color", d.color),
     type |-> ParseType(Value(val, "type", "Static")),
     density |-> Value(val, "density", 1000),
     viscosity |-> Value(val, "viscosity", 0),
     flammability |-> IF Value(val, "flammable", FALSE) THEN 1 ELSE 0,
     probability |-> Value(val, "burnChance", 0),
     glow |-> IF Value(val, "glow", FALSE) THEN 1 ELSE 0,
     maxLife |-> Value(val, "life", 0),
     gemstone |-> IF Value(val, "gemstone", FALSE) THEN 1 ELSE 0,
     lightRadius |-> Value(val, "lightRadius", 0),
     lightIntensity |-> Value(val, "lightIntensity", 0),
     ior |-> Value(val, "ior", 145),
     pad |-> 0]

\* int maxId = 0; for (...) if (val.contains("id") && id > maxId) maxId = id;
MaxDeclaredId(j) ==
    LET ids == {0} \cup {j[k].id : k \in {n \in DOMAIN j : Contains(j[n], "id")}}
    IN  CHOOSE m \in ids : \A x \in ids : x <= m

\* std::vector::resize(n, fill): the first n entries kept, new ones filled
Resize(seq, n, fill) == [k \in 1..n |-> IF k <= Len(seq) THEN seq[k] ELSE fill]

\* A Registry before its first load, and the log of no load;
\* ssbo is the copy of gpuData that glBufferData uploaded.
FreshRegistry == [gpuData |-> <<>>, names |-> <<>>, nameToId |-> NoNames, ssbo |-> <<>>]
NoLoad == [size |-> 0, writes |-> {}, outcome |-> "none"]

\* The second loop of Registry::load over the keys that remain.  t holds
\* the tables, the flagged ids, the indices written and the outcome.  An
\* element without "id" makes val["id"].get<int>() throw; an index outside
\* the tables is undefined behaviour: the process dies there, or (carryOn)
\* the write lands outside the tables and the loop goes on.  After the
\* last element the table is uploaded.
RECURSIVE LoadElements(_, _, _, _)
LoadElements(t, j, keys, carryOn) ==
    IF keys = <<>> THEN [t EXCEPT !.outcome = "ok", !.ssbo = t.gpuData]
    ELSE LET key == Head(keys)
             val == j[key]
         IN  IF ~Contains(val, "id") THEN [t EXCEPT !.outcome = "type_error"]
             ELSE LET id == val.id
                      logged == [t EXCEPT !.writes = @ \cup {id}]
                  IN  IF id < 0 \/ id >= Len(t.names)
                      THEN IF carryOn
                           THEN LoadElements(
                                    [logged EXCEPT !.nameToId = (key :> id) @@ @],
                                    j, Tail(keys), carryOn)
                           ELSE [logged EXCEPT !.outcome = "crashed"]
                      ELSE LoadElements(
                               [logged EXCEPT
                                   !.names[id + 1] = key,
                                   !.nameToId = (key :> id) @@ @,
                                   !.gpuData[id + 1] = Overlay(@, val),
                                   !.flags = IF Value(val, "singleClick", FALSE)
                                             THEN @ \cup {id} ELSE @ \ {id}],
                               j, Tail(keys), carryOn)

\* Registry::load after the file was opened and parsed: both loops.
LoadJson(reg, flags, j, carryOn) ==
    LET size == MaxDeclaredId(j) + 1
    IN  LoadElements([gpuData |-> [k \in 1..size |-> DefaultElement],
                      names |-> Resize(reg.names, size, ""),
                      nameToId |-> reg.nameToId,
                      ssbo |-> reg.ssbo,
                      flags |-> {f \in flags : f < size},
                      writes |-> {},
                      outcome |-> "running"],
                     j, Items(j), carryOn)

\* Registry::load leaves through an exception before it touches a table.
Thrown(reg, flags, what) ==
    [gpuData |-> reg.gpuData, names |-> reg.names, nameToId |-> reg.nameToId,
     ssbo |-> reg.ssbo, flags |-> flags, writes |-> {}, outcome |-> what]

\* Registry::load
Load(reg, flags, f, carryOn) ==
    IF f.status = "missing" THEN Thrown(reg, flags, "runtime_error")
    ELSE IF f.status = "malformed" THEN Thrown(reg, flags, "parse_error")
    ELSE LoadJson(reg, flags, f.json, carryOn)

\* The tables of a result of Load, and what the loop did.
TablesOf(t) ==
    [gpuData |-> t.gpuData, names |-> t.names, nameToId |-> t.nameToId, ssbo |-> t.ssbo]
LogOf(t) == [size |-> Len(t.names), writes |-> t.writes, outcome |-> t.outcome]

\* std::transform(..., ::toupper) on the names explored
ToUpper(name) == IF name \in {"Sand", "sand"} THEN "SAND" ELSE "STONE"

\* "#define NAME <value>u"
Define(symbol, value) == [symbol |-> symbol, value |-> value]

\* Registry::getShaderHeader: one line per entry of nameToId in key order,
\* then MAX_ELEMENTS.
GetShaderHeader(reg) ==
    LET keys == Items(reg.nameToId)
    IN  [k \in 1..Len(keys) |-> Define(ToUpper(keys[k]), reg.nameToId[keys[k]])]
            \o <<Define("MAX_ELEMENTS", Len(reg.gpuData))>>

\* Registry::getId
GetId(reg, name) == IF name \in DOMAIN reg.nameToId THEN reg.nameToId[name] ELSE -1

\* std::vector::operator[] does not test its index: outside the vector it
\* reads whatever lies there.
At(seq, id, outside) == IF id + 1 \in DOMAIN seq THEN seq[id + 1] ELSE outside
OutsideElement == [DefaultElement EXCEPT !.color = <<-1, -1, -1, -1>>]

\* Variant: the lower bound is not tested.
GetColorUnchecked(reg, id) ==
    IF id < Len(reg.gpuData) THEN At(reg.gpuData, id, OutsideElement).color ELSE Magenta

\* Registry::getColor
GetColor(reg, id) ==
    IF id >= 0 /\ id < Len(reg.gpuData)
    THEN At(reg.gpuData, id, OutsideElement).color ELSE Magenta

\* Ids handed to the lookups, and no lookup made.
LookupIds == (-2)..(MaxId + 2)
NoLookup == [called |-> FALSE, id |-> 0, color |-> Magenta, single |-> FALSE]

\* The shaders World::init and App::init build, in that order.
ShaderOrder == <<"simulation", "render", "lighting", "composite", "quad", "brush">>
Shaders == {ShaderOrder[k] : k \in 1..Len(ShaderOrder)}

\* main has not returned.
NotExited == -1

\* The element source of the frame-loop runs: ids 0..2, "stone" single-click.
DefaultSource ==
    [n \in Names |-> Catalogue[n] @@
        [id |-> IF n = "Sand" THEN 0 ELSE IF n = "sand" THEN 1 ELSE 2]]

\* The same source with "singleClick": true on the elements of the ids flags.
SourceFlagging(flags) ==
    [n \in Names |->
        IF DefaultSource[n].id \in flags
        THEN [singleClick |-> TRUE] @@ DefaultSource[n] ELSE DefaultSource[n]]

\* ------------------------------------------------------------ the frame
NoDispatch == [shader |-> "none", barrier |-> TRUE]

\* BrushShape, the values of App::selectedBrush.
BrushShapes == {"Circle", "Square", "Star"}

\* No handleInput has run since the last update began.
NoInput == [called |-> FALSE, want |-> FALSE, left |-> FALSE, right |-> FALSE,
            mouse |-> <<0, 0>>, shouldDraw |-> FALSE, dispatched |-> FALSE,
            erasing |-> FALSE, single |-> FALSE, x |-> 0, y |-> 0, size |-> 0,
            shape |-> "Circle", offsets |-> {}]

\* A widget operated in renderUI and the value it was given; for "Clear
\* World" the number of non-empty cells the two state textures held.
UiEvent(w, v) == [widget |-> w, value |-> v]
NoUiEvent == UiEvent("none", 0)

\* The primary button in earlier frames: not down in the preceding frame
\* (which the UI did not capture), nor in the latest frame in which the UI
\* left the mouse to the viewport.
NoPress == [left |-> FALSE, want |-> FALSE, freeLeft |-> FALSE]

\* What App::init and World::createTextures leave, apart from the fields
\* listed in Init: the state textures cleared to empty, the light surfaces
\* allocated and not written, the registry loaded from the source that
\* flags the ids of singleClickFlags, every shader built.
InitCommon ==
    /\ stateData = [t \in {stateTextures[1], stateTextures[2]} |-> ClearData]
    /\ lightData = [t \in {lightmapTexture, lightmapPingPong} |-> Unwritten]
    /\ glError = FALSE
    /\ input = NoInput
    /\ uiEvent = NoUiEvent
    /\ press = NoPress
    /\ LET loaded == Load(FreshRegistry, {}, Readable(SourceFlagging(singleClickFlags)),
                          FALSE)
       IN  /\ file = Readable(SourceFlagging(singleClickFlags))
           /\ registry = TablesOf(loaded)
           /\ loadLog = LogOf(loaded)
           /\ header = GetShaderHeader(TablesOf(loaded))
    /\ lookup = NoLookup
    /\ exception = "none"
    /\ exitStatus = NotExited
    /\ programs = Shaders
ZeroStats == [ticks |-> 0, steps |-> 0, tickSteps |-> 0, tickStepsPerFrame |-> 0]

\* The state after App::init: the member initialisers of World, with the App
\* members that app.cpp uses (lastMousePressed, selectedElementId) starting
\* not-pressed and on the first non-empty element.
Init ==
    /\ pc = "loop"
    /\ frame = 0
    /\ dt = 0
    /\ accumulatedTime = 0
    /\ simulationTime = 0
    /\ frameCount = 0
    /\ currentBuffer = 0
    /\ stepsPerFrame = DefaultStepsPerFrame
    /\ lightBounces = DefaultLightBounces
    /\ i = 0
    /\ bounces = 0
    /\ bounce = 0
    /\ finalLightmap = "none"
    /\ imageUnit = [u \in 0..4 |-> NoBinding]
    /\ lastDispatch = NoDispatch
    /\ lastMousePressed = FALSE
    /\ isDrawing = FALSE
    /\ selectedElementId = 1
    /\ phaseLog = <<>>
    /\ brushLog = <<>>
    /\ lightLog = <<>>
    /\ tickStats = ZeroStats
    /\ totals = [ticks |-> 0, time |-> 0, steps |-> NoSteps]
    /\ brushSize = 1
    /\ selectedBrush = "Circle"
    /\ singleClickFlags = SingleClickIds
    /\ InitCommon

\* ------------------------------------------------------------- App::run
\* while (!glfwWindowShouldClose(window)): the window was closed.
Close ==
    /\ pc = "loop"
    /\ pc' = "done"
    /\ UNCHANGED <<frame, dt, worldVars, settingVars, i, renderLocals, glVars,
                   inputVars, historyVars,
                   paintVars>>

\* glfwPollEvents(), then the delta time of this frame and its clamp, for at
\* most maxFrames iterations and the elapsed times of elapsedSet.
PollEventsOf(maxFrames, elapsedSet) ==
    /\ pc = "loop"
    /\ frame < maxFrames
    /\ \E elapsed \in elapsedSet : dt' = ClampDt(elapsed)
    /\ frame' = frame + 1
    /\ pc' = "input"
    /\ phaseLog' = <<"poll">>
    /\ brushLog' = <<>>
    /\ lightLog' = <<>>
    /\ tickStats' = ZeroStats
    /\ UNCHANGED <<worldVars, settingVars, i, renderLocals, glVars, inputVars, totals,
                   paintVars>>

PollEvents == PollEventsOf(MaxFrames, ElapsedSet)


\* ------------------------------------------------------ App::handleInput
viewportX == 0
viewportY == 0
viewportWidth == worldWidth * pixelScale
viewportHeight == worldHeight * pixelScale

\* Variant: a pointer outside the viewport is clamped to the nearest cell.
ScreenToWorldClamped(screenX, screenY) ==
    LET wx == (screenX - viewportX) \div pixelScale
        wy == (viewportHeight - (screenY - viewportY)) \div pixelScale
        Clamp(v, hi) == IF v < 0 THEN 0 ELSE IF v > hi THEN hi ELSE v
    IN  [ok |-> TRUE, x |-> Clamp(wx, worldWidth - 1), y |-> Clamp(wy, worldHeight - 1)]

\* App::screenToWorld: [ok, x, y]; x and y are meaningful only when ok.
ScreenToWorld(screenX, screenY) ==
    IF \/ screenX < viewportX
       \/ screenX >= viewportX + viewportWidth
       \/ screenY < viewportY
       \/ screenY >= viewportY + viewportHeight
    THEN [ok |-> FALSE, x |-> 0, y |-> 0]
    ELSE LET localX == screenX - viewportX
             localY == viewportHeight - (screenY - viewportY)
             wx == localX \div pixelScale
             wy == localY \div pixelScale
         IN  [ok |-> wx >= 0 /\ wx < worldWidth /\ wy >= 0 /\ wy < worldHeight,
              x |-> wx, y |-> wy]

\* Registry::isSingleClick
IsSingleClick(id) ==
    IF id >= 0 /\ id < Len(registry.names) THEN id \in singleClickFlags ELSE FALSE

\* Variant: the brush binds the other state texture.
GetOtherTexture == stateTextures[(1 - currentBuffer) + 1]

\* World::getCurrentTexture
GetCurrentTexture == stateTextures[currentBuffer + 1]

\* The brush dispatch leaves its barrier issued (glMemoryBarrier after dispatch).
BrushBarrier == TRUE

\* True between a step's kernel dispatch and its buffer swap.
StepInFlight == pc \in {"barrier", "swap"}

\* Variant: the press edge is not looked at.
ShouldDrawAlways(leftPressed, rightPressed, isSingleClickItem, last) ==
    leftPressed \/ rightPressed

\* bool shouldDraw of handleInput
ShouldDraw(leftPressed, rightPressed, isSingleClickItem, last) ==
    \/ leftPressed /\ (isSingleClickItem => ~last)
    \/ rightPressed

Abs(n) == IF n < 0 THEN -n ELSE n

\* Variant: strict comparison in the circle test.
CircleMemberStrict(dx, dy, s) == dx * dx + dy * dy < s * s

\* if (dx*dx + dy*dy <= brushSize*brushSize)
CircleMember(dx, dy, s) == dx * dx + dy * dy <= s * s

\* The shape rule of the brush kernel.
ShapeMember(shape, dx, dy, s) ==
    CASE shape = "Circle" -> CircleMember(dx, dy, s)
      [] shape = "Square" -> TRUE
      [] shape = "Star" -> Abs(dx) + Abs(dy) <= s

\* The offsets a brush of a shape and size writes: dy and dx run over
\* -brushSize..brushSize and the shape rule selects.
BrushOffsets(shape, s) ==
    {o \in ((-s)..s) \X ((-s)..s) : ShapeMember(shape, o[1], o[2], s)}

\* glTexSubImage2D of one texel at (x, y): outside the texture it raises
\* GL_INVALID_VALUE and writes nothing.
TexSubImage(data, tex, x, y, pixel) ==
    IF <<x, y>> \in Cells
    THEN [data |-> [data EXCEPT ![tex][<<x, y>>] = pixel], err |-> FALSE]
    ELSE [data |-> data, err |-> TRUE]

\* Variant: the range test has no lower bounds.
WriteCellUpperOnly(data, tex, x, y, pixel) ==
    IF x >= worldWidth \/ y >= worldHeight
    THEN [data |-> data, err |-> FALSE]
    ELSE TexSubImage(data, tex, x, y, pixel)

\* The guarded single-cell write of World::spawnParticle: [data, err].
WriteCell(data, tex, x, y, pixel) ==
    IF x < 0 \/ x >= worldWidth \/ y < 0 \/ y >= worldHeight
    THEN [data |-> data, err |-> FALSE]
    ELSE TexSubImage(data, tex, x, y, pixel)

\* uint8_t pixel[4] of spawnParticle
SpawnPixel(element) == <<element, 0, 128, 0>>

\* World::spawnParticle on the texture tex
SpawnParticle(data, tex, x, y, element) == WriteCell(data, tex, x, y, SpawnPixel(element))

\* The texel the brush kernel writes: the empty cell when erasing.
BrushPixel(erasing, element) == IF erasing THEN EmptyCell ELSE SpawnPixel(element)

\* The brush centred on (x, y): one guarded write per offset of the
\* footprint.  Each write touches at most its own cell, so the writes are
\* applied to the data side by side: a cell takes the value of the write
\* that changes it, and an error of any write is kept.
ApplyBrush(r, tex, x, y, pixel, offs) ==
    LET writes == {WriteCell(r.data, tex, x + o[1], y + o[2], pixel) : o \in offs}
        Written(t, c) == {w \in writes : w.data[t][c] # r.data[t][c]}
    IN  [data |-> [t \in DOMAIN r.data |->
                     [c \in Cells |->
                        IF Written(t, c) = {} THEN r.data[t][c]
                        ELSE (CHOOSE w \in Written(t, c) : TRUE).data[t][c]]],
         err |-> r.err \/ \E w \in writes : w.err]

\* The primary button as the frames after this one look back on it.
PressAfter(wantCaptureMouse, leftPressed) ==
    [left |-> leftPressed,
     want |-> wantCaptureMouse,
     freeLeft |-> IF wantCaptureMouse THEN press.freeLeft ELSE leftPressed]

\* App::handleInput, given what ImGui and GLFW report in this frame.
HandleInputWith(wantCaptureMouse, leftPressed, rightPressed, mouse) ==
    LET isSingleClickItem == IsSingleClick(selectedElementId)
        shouldDraw == ShouldDraw(leftPressed, rightPressed, isSingleClickItem,
                                 lastMousePressed)
        hit == ScreenToWorld(mouse[1], mouse[2])
        erasing == rightPressed \/ selectedElementId = 0
        effectiveBrushSize == IF isSingleClickItem THEN 0 ELSE brushSize
        effectiveBrushShape == IF isSingleClickItem THEN "Circle" ELSE selectedBrush
        offs == BrushOffsets(effectiveBrushShape, effectiveBrushSize)
        painted == ApplyBrush([data |-> stateData, err |-> glError], GetCurrentTexture,
                              hit.x, hit.y, BrushPixel(erasing, selectedElementId), offs)
        seen == [NoInput EXCEPT !.called = TRUE, !.want = wantCaptureMouse,
                                !.left = leftPressed, !.right = rightPressed,
                                !.mouse = mouse, !.single = isSingleClickItem,
                                !.shouldDraw = ~wantCaptureMouse /\ shouldDraw]
    IN  IF wantCaptureMouse
        THEN /\ isDrawing' = FALSE
             /\ input' = seen
             /\ UNCHANGED <<lastMousePressed, imageUnit, lastDispatch, brushLog, gridVars>>
        ELSE /\ lastMousePressed' = leftPressed
             /\ IF shouldDraw
                THEN IF hit.ok
                     THEN /\ imageUnit' = [imageUnit EXCEPT
                                              ![0] = Binding(GetCurrentTexture, "read_write")]
                          /\ lastDispatch' = [shader |-> "brush", barrier |-> BrushBarrier]
                          /\ stateData' = painted.data
                          /\ glError' = painted.err
                          /\ brushLog' = Append(brushLog,
                                 [tex |-> GetCurrentTexture,
                                  current |-> stateTextures[currentBuffer + 1],
                                  inFlight |-> StepInFlight])
                          /\ input' = [seen EXCEPT !.dispatched = TRUE,
                                                   !.erasing = erasing,
                                                   !.x = hit.x, !.y = hit.y,
                                                   !.size = effectiveBrushSize,
                                                   !.shape = effectiveBrushShape,
                                                   !.offsets = offs]
                          /\ isDrawing' = TRUE
                     ELSE /\ input' = seen
                          /\ UNCHANGED <<imageUnit, lastDispatch, brushLog, isDrawing,
                                         gridVars>>
                ELSE /\ isDrawing' = FALSE
                     /\ input' = seen
                     /\ UNCHANGED <<imageUnit, lastDispatch, brushLog, gridVars>>

\* handleInput with the pointer at one of the positions of mouseSet; the
\* history of the primary button is kept when track is set.
HandleInputOf(mouseSet, track) ==
    /\ pc = "input"
    /\ \E want \in BOOLEAN, left \in BOOLEAN, right \in BOOLEAN, mouse \in mouseSet :
          /\ HandleInputWith(want, left, right, mouse)
          /\ press' = IF track THEN PressAfter(want, left) ELSE press
    /\ pc' = "update"
    /\ phaseLog' = Append(phaseLog, "input")
    /\ UNCHANGED <<frame, dt, worldVars, settingVars, i, renderLocals,
                   selectedElementId, lightLog, tickStats, totals, brushVars, lightData,
                   uiEvent>>

HandleInput == HandleInputOf(MouseSet, FALSE)

\* --------------------------------------------------------- World::update
\* Variant: strict comparison in the while condition.
TickDueStrict(acc) == acc > FIXED_TIMESTEP

\* while (accumulatedTime >= FIXED_TIMESTEP)
TickDue(acc) == acc >= FIXED_TIMESTEP

\* Variant: off-by-one in the for condition.
StepDueInclusive(k, n) == k <= n

\* for (...; i < simSettings.stepsPerFrame; ...)
StepDue(k, n) == k < n

\* The while loop of World::update run to its end from an accumulator value:
\* the number of fixed ticks it performs.
RECURSIVE WhileTicks(_)
WhileTicks(acc) ==
    IF TickDue(acc) THEN 1 + WhileTicks(FSub(acc, FIXED_TIMESTEP)) ELSE 0

\* accumulatedTime += dt; simulationTime += dt;
UpdateBegin ==
    /\ pc = "update"
    /\ accumulatedTime' = FAdd(accumulatedTime, dt)
    /\ simulationTime' = FAddTime(simulationTime, dt)
    /\ pc' = "while"
    /\ phaseLog' = Append(phaseLog, "update")
    /\ totals' = [totals EXCEPT !.time = @ + dt]
    /\ input' = NoInput
    /\ UNCHANGED <<frame, dt, frameCount, currentBuffer, settingVars, i, renderLocals,
                   glVars, inputVars, brushLog, lightLog, tickStats, brushVars, gridVars,
                   lightData, uiEvent, press>>

\* The while condition holds: a fixed tick starts, int i = 0.
TickBegin ==
    /\ pc = "while"
    /\ TickDue(accumulatedTime)
    /\ i' = 0
    /\ pc' = "for"
    /\ tickStats' = [tickStats EXCEPT !.tickSteps = 0, !.tickStepsPerFrame = stepsPerFrame]
    /\ UNCHANGED <<frame, dt, worldVars, settingVars, renderLocals, glVars, inputVars,
                   phaseLog, brushLog, lightLog, totals,
                   paintVars>>

\* Variant: a frame in which no tick ran skips the render pass.
UpdateReturnSkipsRender ==
    /\ pc = "while"
    /\ ~TickDue(accumulatedTime)
    /\ pc' = IF tickStats.ticks = 0 THEN "present" ELSE "ui"
    /\ UNCHANGED <<frame, dt, worldVars, settingVars, i, renderLocals, glVars, inputVars,
                   historyVars,
                   paintVars>>

\* The while condition fails: update returns.
UpdateReturn ==
    /\ pc = "while"
    /\ ~TickDue(accumulatedTime)
    /\ pc' = "ui"
    /\ UNCHANGED <<frame, dt, worldVars, settingVars, i, renderLocals, glVars, inputVars,
                   historyVars,
                   paintVars>>

\* The for condition fails: accumulatedTime -= FIXED_TIMESTEP, the tick is over.
TickEnd ==
    /\ pc = "for"
    /\ ~StepDue(i, stepsPerFrame)
    /\ accumulatedTime' = FSub(accumulatedTime, FIXED_TIMESTEP)
    /\ pc' = "while"
    /\ tickStats' = [tickStats EXCEPT !.ticks = @ + 1]
    /\ totals' = [totals EXCEPT !.ticks = @ + 1]
    /\ UNCHANGED <<frame, dt, simulationTime, frameCount, currentBuffer, settingVars, i,
                   renderLocals, glVars, inputVars, phaseLog, brushLog, lightLog,
                   paintVars>>

\* ------------------------------------------------- World::simulationStep
\* Variant: the write target is the current buffer.
NextBufferSame == currentBuffer

\* nextBuffer = 1 - currentBuffer
NextBuffer == 1 - currentBuffer

\* Variant: the swap leaves the index where it is.
SwapBuffersStuck == currentBuffer

\* World::swapBuffers
SwapBuffers == 1 - currentBuffer

\* The simulation kernel: the grid it writes from the grid it reads.  The
\* elements of the explored registry are of type Static, which no rule moves.
SimulationKernel(grid) == grid

\* The for condition holds: simulationStep binds the two state textures and
\* dispatches the simulation kernel.
StepDispatch ==
    /\ pc = "for"
    /\ StepDue(i, stepsPerFrame)
    /\ imageUnit' = [imageUnit EXCEPT
                        ![0] = Binding(stateTextures[currentBuffer + 1], "read_only"),
                        ![1] = Binding(stateTextures[NextBuffer + 1], "write_only")]
    /\ lastDispatch' = [shader |-> "simulation", barrier |-> FALSE]
    /\ stateData' = [stateData EXCEPT
                        ![stateTextures[NextBuffer + 1]] =
                            SimulationKernel(stateData[stateTextures[currentBuffer + 1]])]
    /\ pc' = "barrier"
    /\ UNCHANGED <<frame, dt, worldVars, settingVars, i, renderLocals, inputVars,
                   historyVars,
                   brushVars, glError, lightData, ghostVars>>

\* glMemoryBarrier(GL_SHADER_IMAGE_ACCESS_BARRIER_BIT)
StepBarrier ==
    /\ pc = "barrier"
    /\ lastDispatch' = [lastDispatch EXCEPT !.barrier = TRUE]
    /\ pc' = "swap"
    /\ UNCHANGED <<frame, dt, worldVars, settingVars, i, renderLocals, imageUnit,
                   inputVars, historyVars,
                   paintVars>>

\* swapBuffers(); frameCount++; and the for loop's i++.
StepCommit ==
    /\ pc = "swap"
    /\ currentBuffer' = SwapBuffers
    /\ frameCount' = Inc32(frameCount)
    /\ i' = i + 1
    /\ pc' = "for"
    /\ tickStats' = [tickStats EXCEPT !.steps = @ + 1, !.tickSteps = @ + 1]
    /\ totals' = [totals EXCEPT !.steps = CountStep(@)]
    /\ UNCHANGED <<frame, dt, accumulatedTime, simulationTime, settingVars, renderLocals,
                   glVars, inputVars, phaseLog, brushLog, lightLog,
                   paintVars>>


\* --------------------------------------------------------- App::renderUI
\* Variant: only the current state texture is cleared.
ClearCurrentOnly(data) == [data EXCEPT ![stateTextures[currentBuffer + 1]] = ClearData]

\* World::clear: clearData is uploaded to stateTextures[0] and stateTextures[1].
Clear(data) == [t \in DOMAIN data |-> ClearData]

\* The cells of the two state textures that are not the empty cell.
NonEmptyCount(data) ==
    Cardinality({tc \in (DOMAIN data) \X Cells : data[tc[1]][tc[2]] # EmptyCell})

\* The widgets operated in the timing and lighting runs, and in the brush runs.
SettingsEvents ==
    {NoUiEvent} \cup {UiEvent("speed", v) : v \in 1..MaxStepsChoice}
                \cup {UiEvent("bounces", v) : v \in 0..MaxBounces}
BrushEvents ==
    {NoUiEvent, UiEvent("clear", 0)} \cup {UiEvent("element", id) : id \in Elements}

\* One ImGui frame: the pointer operates at most one widget, one of events.
\* "Clear World" calls World::clear, which rewrites the contents of both
\* state textures and touches no field of World.
RenderUIOf(events) ==
    /\ pc = "ui"
    /\ \E e \in events :
          /\ selectedElementId' = IF e.widget = "element" THEN e.value
                                  ELSE selectedElementId
          /\ stepsPerFrame' = IF e.widget = "speed" THEN e.value ELSE stepsPerFrame
          /\ lightBounces' = IF e.widget = "bounces" THEN e.value ELSE lightBounces
          /\ stateData' = IF e.widget = "clear" THEN Clear(stateData) ELSE stateData
          /\ uiEvent' = IF e.widget = "clear"
                        THEN UiEvent("clear", NonEmptyCount(stateData)) ELSE e
    /\ pc' = "derive"
    /\ phaseLog' = Append(phaseLog, "ui")
    /\ UNCHANGED <<frame, dt, worldVars, i, renderLocals, glVars, lastMousePressed,
                   isDrawing, brushLog, lightLog, tickStats, totals, brushVars, glError,
                   lightData, input, press>>

RenderUI == RenderUIOf(SettingsEvents)

\* ---------------------------------------------------------- World::render
\* Variant: every bounce reads the seed surface.
ReadLightSeed(b) == lightmapTexture

\* readLight of a bounce
ReadLight(b) ==
    IF b = 0 THEN lightmapTexture
    ELSE IF b % 2 = 0 THEN lightmapTexture ELSE lightmapPingPong

\* writeLight of a bounce
WriteLight(b) == IF b % 2 = 0 THEN lightmapPingPong ELSE lightmapTexture

\* Variant: the parity test of finalLightmap is inverted.
FinalLightmapInverted(n) ==
    IF n = 0 THEN lightmapTexture
    ELSE IF n % 2 = 0 THEN lightmapPingPong ELSE lightmapTexture

\* finalLightmap for a bounce count
FinalLightmap(n) ==
    IF n = 0 THEN lightmapTexture
    ELSE IF n % 2 = 0 THEN lightmapTexture ELSE lightmapPingPong

\* Variant: the passes bind the other state texture.
RenderStateInOther == Binding(stateTextures[(1 - currentBuffer) + 1], "read_only")

\* binding 0 (stateIn) of every pass of render:
\* glBindImageTexture(0, stateTextures[currentBuffer], ..., GL_READ_ONLY, ...)
RenderStateIn == Binding(stateTextures[currentBuffer + 1], "read_only")

\* Pass 1 (state -> color + normals) with its barrier, the lighting uniforms,
\* and int bounces = renderSettingsData.lightBounces; bounce = 0.
RenderDerive ==
    /\ pc = "derive"
    /\ imageUnit' = [imageUnit EXCEPT
                        ![0] = RenderStateIn,
                        ![1] = Binding(colorTexture, "write_only"),
                        ![2] = Binding(normalTexture, "write_only")]
    /\ lastDispatch' = [shader |-> "render", barrier |-> TRUE]
    /\ bounces' = lightBounces
    /\ bounce' = 0
    /\ lightLog' = <<>>
    /\ uiEvent' = NoUiEvent
    /\ pc' = "propagate"
    /\ phaseLog' = Append(phaseLog, "render")
    /\ UNCHANGED <<frame, dt, worldVars, settingVars, i, finalLightmap, inputVars,
                   brushLog, tickStats, totals,
                   brushVars, gridVars, lightData, input, press>>

\* One pass of the propagate loop: bind, dispatch, barrier, bounce++.
LightBounce ==
    /\ pc = "propagate"
    /\ bounce < bounces
    /\ imageUnit' = [imageUnit EXCEPT
                        ![0] = RenderStateIn,
                        ![1] = Binding(normalTexture, "read_only"),
                        ![3] = Binding(ReadLight(bounce), "read_only"),
                        ![4] = Binding(WriteLight(bounce), "write_only")]
    /\ lastDispatch' = [shader |-> "lighting", barrier |-> TRUE]
    /\ lightLog' = Append(lightLog, <<ReadLight(bounce), WriteLight(bounce)>>)
    /\ lightData' = [lightData EXCEPT ![WriteLight(bounce)] = frame]
    /\ bounce' = bounce + 1
    /\ UNCHANGED <<pc, frame, dt, worldVars, settingVars, i, bounces, finalLightmap,
                   inputVars, phaseLog, brushLog, tickStats, totals,
                   brushVars, gridVars, ghostVars>>

\* The loop is over: choose finalLightmap, Pass 3 (composite) with its barrier.
Composite ==
    /\ pc = "propagate"
    /\ ~(bounce < bounces)
    /\ finalLightmap' = FinalLightmap(bounces)
    /\ imageUnit' = [imageUnit EXCEPT
                        ![0] = RenderStateIn,
                        ![1] = Binding(colorTexture, "read_only"),
                        ![2] = Binding(normalTexture, "read_only"),
                        ![3] = Binding(FinalLightmap(bounces), "read_only"),
                        ![4] = Binding(displayTexture, "write_only")]
    /\ lastDispatch' = [shader |-> "composite", barrier |-> TRUE]
    /\ pc' = "blit"
    /\ UNCHANGED <<frame, dt, worldVars, settingVars, i, bounces, bounce, inputVars,
                   historyVars,
                   paintVars>>

\* Pass 4: draw the display texture into the viewport; render returns.
Blit ==
    /\ pc = "blit"
    /\ pc' = "present"
    /\ UNCHANGED <<frame, dt, worldVars, settingVars, i, renderLocals, glVars, inputVars,
                   historyVars,
                   paintVars>>

\* ImGui draw data, glfwSwapBuffers(window); back to the loop condition.
Present ==
    /\ pc = "present"
    /\ pc' = "loop"
    /\ phaseLog' = Append(phaseLog, "present")
    /\ UNCHANGED <<frame, dt, worldVars, settingVars, i, renderLocals, glVars, inputVars,
                   brushLog, lightLog, tickStats, totals,
                   paintVars>>

\* --------------------------------------------------------- specification
Next ==
    \/ Close
    \/ PollEvents
    \/ HandleInput
    \/ UpdateBegin
    \/ TickBegin
    \/ StepDispatch
    \/ StepBarrier
    \/ StepCommit
    \/ TickEnd
    \/ UpdateReturn
    \/ RenderUI
    \/ RenderDerive
    \/ LightBounce
    \/ Composite
    \/ Blit
    \/ Present

Spec == Init /\ [][Next]_vars

\* ------------------------------------------------------------ brush runs
\* Frames that arrive one fixed timestep apart.
InputElapsedSet == {FIXED_TIMESTEP}

\* The state after App::init of a session with any of the registries, any
\* element selected in the palette, and any brush set in the brush panel.
InitInput ==
    /\ pc = "loop"
    /\ frame = 0
    /\ dt = 0
    /\ accumulatedTime = 0
    /\ simulationTime = 0
    /\ frameCount = 0
    /\ currentBuffer = 0
    /\ stepsPerFrame = DefaultStepsPerFrame
    /\ lightBounces = DefaultLightBounces
    /\ i = 0
    /\ bounces = 0
    /\ bounce = 0
    /\ finalLightmap = "none"
    /\ imageUnit = [u \in 0..4 |-> NoBinding]
    /\ lastDispatch = NoDispatch
    /\ lastMousePressed = FALSE
    /\ isDrawing = FALSE
    /\ selectedElementId \in Elements
    /\ phaseLog = <<>>
    /\ brushLog = <<>>
    /\ lightLog = <<>>
    /\ tickStats = ZeroStats
    /\ totals = [ticks |-> 0, time |-> 0, steps |-> NoSteps]
    /\ brushSize \in 1..MaxBrushSize
    /\ selectedBrush \in BrushShapes
    /\ singleClickFlags \in RegistryFlagSets
    /\ InitCommon

PollInput == PollEventsOf(MaxHoldFrames, InputElapsedSet)

HandleInputBrush == HandleInputOf(BrushMouseSet, TRUE)

RenderUIBrush == RenderUIOf(BrushEvents)

NextInput ==
    \/ Close
    \/ PollInput
    \/ HandleInputBrush
    \/ UpdateBegin
    \/ TickBegin
    \/ StepDispatch
    \/ StepBarrier
    \/ StepCommit
    \/ TickEnd
    \/ UpdateReturn
    \/ RenderUIBrush
    \/ RenderDerive
    \/ LightBounce
    \/ Composite
    \/ Blit
    \/ Present

SpecInput == InitInput /\ [][NextInput]_vars

TypeOK ==
    /\ pc \in {"loop", "input", "update", "while", "for", "barrier", "swap", "ui",
               "derive", "propagate", "blit", "present", "done"}
    /\ frame \in 0..MaxFrames
    /\ currentBuffer \in {0, 1}
    /\ brushSize \in 1..15
    /\ selectedBrush \in BrushShapes
    /\ selectedElementId \in Elements
    /\ DOMAIN stateData = {stateTextures[1], stateTextures[2]}
    /\ \A t \in DOMAIN stateData : DOMAIN stateData[t] = Cells
    /\ stepsPerFrame \in 1..10
    /\ lightBounces \in 0..6


\* ================================================================ claims
InUpdate == pc \in {"while", "for", "barrier", "swap"}

\* C1: the current-buffer index is always 0 or 1, and while a simulation step
\* is dispatched image unit 0 (read) holds stateTextures[currentBuffer] and
\* image unit 1 (write) holds stateTextures[1 - currentBuffer], two
\* different buffers.
C1_ReadWriteBuffersDiffer ==
    /\ currentBuffer \in {0, 1}
    /\ StepInFlight =>
          /\ imageUnit[0] = Binding(stateTextures[currentBuffer + 1], "read_only")
          /\ imageUnit[1] = Binding(stateTextures[(1 - currentBuffer) + 1], "write_only")
          /\ imageUnit[0].tex # imageUnit[1].tex

C1_Witness == pc = "swap" /\ currentBuffer = 1 /\ imageUnit[1].tex = "state0"

\* C2: currentBuffer and frameCount change only in the commit of a step,
\* after the simulation dispatch and its memory barrier; the commit flips the
\* index and adds exactly 1 to frameCount, and every step ends with it.
C2_StepFlipsAndCounts ==
    [][ /\ (currentBuffer' # currentBuffer \/ frameCount' # frameCount) =>
              /\ pc = "swap"
              /\ lastDispatch = [shader |-> "simulation", barrier |-> TRUE]
        /\ pc = "swap" =>
              /\ currentBuffer' = 1 - currentBuffer
              /\ currentBuffer' # currentBuffer
              /\ frameCount' = frameCount + 1
              /\ pc' = "for" ]_vars

C2_Witness == pc = "for" /\ frameCount = 2 /\ currentBuffer = 0 /\ i = 2

\* C3: a brush write binds the buffer that is current when it is issued, is
\* never issued while a step is in flight, has its barrier issued before
\* update starts, and the first step after it reads the buffer the brush
\* wrote and writes the other one.
C3_BrushWritesCurrentBuffer ==
    /\ \A k \in 1..Len(brushLog) :
          brushLog[k].tex = brushLog[k].current /\ ~brushLog[k].inFlight
    /\ StepInFlight => lastDispatch.shader = "simulation"
    /\ lastDispatch.shader = "brush" =>
          /\ lastDispatch.barrier
          /\ pc \in {"update", "while", "for", "ui", "derive"}
          /\ imageUnit[0].tex = stateTextures[currentBuffer + 1]
    /\ (StepInFlight /\ tickStats.steps = 0 /\ brushLog # <<>>) =>
          /\ imageUnit[0].tex = brushLog[1].tex
          /\ imageUnit[1].tex # brushLog[1].tex

C3_Witness ==
    /\ pc = "barrier" /\ tickStats.steps = 0 /\ frame = 2
    /\ Len(brushLog) = 1 /\ imageUnit[0].tex = brushLog[1].tex

\* C4: the phases of an iteration run in the order poll, handleInput, update,
\* (UI build), render, present, each exactly once, whatever the number of
\* steps the update ran.
FramePhases == <<"poll", "input", "update", "ui", "render", "present">>

C4_PhaseOrder ==
    /\ Len(phaseLog) <= Len(FramePhases)
    /\ \A k \in 1..Len(phaseLog) : phaseLog[k] = FramePhases[k]
    /\ (pc = "loop" /\ frame > 0) => phaseLog = FramePhases
    /\ pc = "present" => Len(phaseLog) = 5

C4_Witness == pc = "loop" /\ frame = 2 /\ tickStats.ticks = 0 /\ phaseLog = FramePhases

\* C5: when update returns, the accumulator lies in [0, FIXED_TIMESTEP) and
\* the steps run equal stepsPerFrame times the fixed ticks consumed; the
\* accumulator is never negative.
C5_UpdateConsumesTicks ==
    /\ accumulatedTime >= 0
    /\ pc = "ui" =>
          /\ accumulatedTime < FIXED_TIMESTEP
          /\ tickStats.steps = stepsPerFrame * tickStats.ticks
    /\ (pc = "while" /\ tickStats.ticks = 0) => tickStats.steps = 0

C5_Witness == pc = "ui" /\ tickStats.ticks = 2 /\ tickStats.steps = 8

\* C6: every tick runs the number of steps stepsPerFrame had when the tick
\* started, and stepsPerFrame changes only in renderUI, never during update.
C6_StepsPerTick ==
    /\ [](pc = "for" => /\ tickStats.tickStepsPerFrame = stepsPerFrame
                        /\ tickStats.tickSteps = i
                        /\ i <= tickStats.tickStepsPerFrame)
    /\ []((pc = "while" /\ tickStats.ticks > 0) =>
             tickStats.tickSteps = tickStats.tickStepsPerFrame)
    /\ [][stepsPerFrame' # stepsPerFrame => pc = "ui"]_vars

C6_Witness ==
    pc = "while" /\ tickStats.ticks = 1 /\ tickStats.tickStepsPerFrame = 1

C8_TicksIndependentOfPacing ==
    (pc = "ui" /\ totals.time <= DT_CLAMP /\ RoundF(totals.time) = totals.time) =>
        totals.ticks = WhileTicks(totals.time)

\* C9: composite reads lightmapTexture for an even bounce count (0 included)
\* and lightmapPingPong for an odd one, which for N >= 1 is the surface the
\* last bounce wrote.
C9_CompositeReadsParity ==
    pc = "blit" =>
        /\ Len(lightLog) = bounces
        /\ imageUnit[3].access = "read_only"
        /\ imageUnit[3].tex = (IF bounces % 2 = 0 THEN "lightmap" ELSE "pingpong")
        /\ bounces >= 1 => imageUnit[3].tex = lightLog[bounces][2]

C9_Witness == pc = "blit" /\ bounces = 1 /\ imageUnit[3].tex = "pingpong"

\* C10: every bounce after the first reads the surface the previous bounce
\* wrote, and no bounce reads the surface it writes.
C10_BounceChain ==
    \A k \in 1..Len(lightLog) :
        /\ lightLog[k][1] # lightLog[k][2]
        /\ k > 1 => lightLog[k][1] = lightLog[k - 1][2]

C10_Witness == pc = "propagate" /\ Len(lightLog) = 3 /\ imageUnit[3].tex # imageUnit[4].tex

\* C11: the light surface consumed as the seed, by bounce 0 when the bounce
\* count is at least 1 and by the composite stage when it is 0, is a valid
\* empty seed: it is not a surface left unwritten since its creation and it
\* does not hold light written by the bounces of an earlier frame.
C11_SeedIsValid ==
    LET seedConsumed == \/ pc = "propagate" /\ bounces >= 1 /\ bounce = 1
                        \/ pc = "blit" /\ bounces = 0
        seed == lightData[imageUnit[3].tex]
    IN  seedConsumed => seed # Unwritten /\ seed \notin 1..(frame - 1)

C13_EraseIsContinuous ==
    [][ ( /\ pc = "input"
          /\ ~input'.want
          /\ input'.right \/ (input'.left /\ selectedElementId = 0)
          /\ ScreenToWorld(input'.mouse[1], input'.mouse[2]).ok ) =>
            input'.dispatched /\ input'.erasing ]_vars

\* C14: every pixel inside the viewport is accepted and the viewport-local
\* pixel (px, py) maps to cell (px div pixelScale, H - 1 - py div pixelScale),
\* so the top-left pixel maps to (0, H - 1); the pixel right of the right
\* edge is rejected.  Stated on the frames in which handleInput has a write
\* to make and asks screenToWorld for the cell.
C14_PixelMapsToFlippedCell ==
    (input.called /\ input.shouldDraw) =>
        LET px == input.mouse[1] - viewportX
            py == input.mouse[2] - viewportY
        IN  /\ (px \in 0..(viewportWidth - 1) /\ py \in 0..(viewportHeight - 1)) =>
                  /\ input.dispatched
                  /\ input.x = px \div pixelScale
                  /\ input.y = worldHeight - 1 - (py \div pixelScale)
            /\ px = viewportWidth => ~input.dispatched

OutsideViewport(mouse) ==
    \/ mouse[1] < viewportX \/ mouse[1] >= viewportX + viewportWidth
    \/ mouse[2] < viewportY \/ mouse[2] >= viewportY + viewportHeight

\* C15 as claimed: in a frame whose pointer is outside the viewport,
\* handleInput dispatches no grid write and leaves both state buffers, the
\* current-buffer index, lastMousePressed and isDrawing as they were.
C15_OutsideChangesNothing ==
    [][ (pc = "input" /\ OutsideViewport(input'.mouse)) =>
            /\ ~input'.dispatched
            /\ UNCHANGED <<stateData, currentBuffer, lastMousePressed, isDrawing>> ]_vars

\* C15: in a frame whose pointer is outside the viewport, handleInput
\* dispatches no grid write and leaves both state buffers, the current-buffer
\* index, frameCount and the image bindings as they were; lastMousePressed
\* becomes the primary button's state unless the UI captures the mouse, and
\* isDrawing is cleared when the UI captures the mouse or no draw is due and
\* is left as it was otherwise.
C15_OutsideWritesNothing ==
    [][ (pc = "input" /\ OutsideViewport(input'.mouse)) =>
            /\ ~input'.dispatched
            /\ UNCHANGED <<stateData, glError, currentBuffer, frameCount, imageUnit,
                           lastDispatch>>
            /\ lastMousePressed' = IF input'.want THEN lastMousePressed ELSE input'.left
            /\ isDrawing' = IF input'.want \/ ~input'.shouldDraw THEN FALSE
                            ELSE isDrawing ]_vars

\* Both buttons are down with the pointer right of the viewport, in the frame
\* after one that drew: nothing is written and isDrawing is still set.
C15_Witness ==
    /\ pc = "update" /\ frame = 2
    /\ input.called /\ OutsideViewport(input.mouse)
    /\ input.left /\ input.right /\ input.shouldDraw /\ ~input.dispatched
    /\ lastMousePressed /\ isDrawing
    /\ \E c \in Cells : stateData[GetCurrentTexture][c] # EmptyCell

\* The cells a brush dispatch recorded in inp addresses, in range or not.
Footprint(inp) == {<<inp.x + o[1], inp.y + o[2]>> : o \in inp.offsets}

\* C16: a single-cell write with x or y outside the grid, negative
\* coordinates included, is a silent no-op.  In every state in which
\* handleInput is about to run, spawnParticle at any out-of-range coordinate
\* returns the buffers as they are and raises no error; and a brush dispatch
\* raises no error, leaves currentBuffer and frameCount alone and changes no
\* cell other than the in-range cells of its footprint in the current buffer.
C16_OutOfRangeWriteIsNoOp ==
    /\ [](pc = "input" =>
            \A x \in (-MaxBrushSize)..(worldWidth + MaxBrushSize),
               y \in (-MaxBrushSize)..(worldHeight + MaxBrushSize),
               t \in DOMAIN stateData, e \in Elements :
                  <<x, y>> \notin Cells =>
                      SpawnParticle(stateData, t, x, y, e) =
                          [data |-> stateData, err |-> FALSE])
    /\ [][ pc = "input" =>
             /\ ~glError'
             /\ currentBuffer' = currentBuffer /\ frameCount' = frameCount
             /\ \A t \in DOMAIN stateData, c \in Cells :
                    stateData'[t][c] # stateData[t][c] =>
                        t = GetCurrentTexture /\ c \in Footprint(input') ]_vars

\* A brush centred on column 0 of the top row: its footprint reaches x = -1
\* and y = worldHeight, the in-range cells are written and no error is raised.
C16_Witness ==
    /\ pc = "update" /\ input.dispatched /\ ~input.erasing /\ ~glError
    /\ \E c \in Footprint(input) : c[1] < 0
    /\ \E c \in Footprint(input) : c[2] >= worldHeight
    /\ \A c \in Footprint(input) \cap Cells :
          stateData[GetCurrentTexture][c] = SpawnPixel(selectedElementId)

\* C17: after World::clear every cell of both state buffers has element id 0
\* and all auxiliary channels 0, whatever the buffers held before.
C17_ClearZeroesBothBuffers ==
    (pc = "derive" /\ uiEvent.widget = "clear") =>
        \A t \in {stateTextures[1], stateTextures[2]}, c \in Cells, k \in 1..4 :
            stateData[t][c][k] = 0

\* "Clear World" was pressed while both buffers held painted cells.
C17_Witness ==
    /\ pc = "derive" /\ uiEvent.widget = "clear" /\ uiEvent.value >= 4
    /\ stateData[stateTextures[1]] = ClearData /\ stateData[stateTextures[2]] = ClearData

\* C18: World::clear leaves the World equal to a freshly created one: both
\* buffers empty, currentBuffer, frameCount, accumulatedTime and
\* simulationTime at their initial values.
C18_ClearRestoresFreshWorld ==
    (pc = "derive" /\ uiEvent.widget = "clear") =>
        /\ stateData = [t \in {stateTextures[1], stateTextures[2]} |-> ClearData]
        /\ currentBuffer = 0
        /\ frameCount = 0
        /\ accumulatedTime = 0
        /\ simulationTime = 0

\* C19: World::render reads the grid read-only: every step of a render pass
\* leaves the contents of both state buffers, currentBuffer, frameCount,
\* accumulatedTime and simulationTime as they were, every pass (derive, each
\* bounce, composite) binds to image unit 0, read-only, the buffer that is
\* current, and no image unit holds a state buffer with write access.
C19_RenderIsReadOnly ==
    [][ (pc \in {"derive", "propagate", "blit"}) =>
          /\ UNCHANGED <<stateData, currentBuffer, frameCount, accumulatedTime,
                         simulationTime>>
          /\ \A u \in 0..4 :
                imageUnit'[u].tex \in {stateTextures[1], stateTextures[2]} =>
                    imageUnit'[u].access = "read_only"
          /\ pc \in {"derive", "propagate"} =>
                imageUnit'[0] = Binding(stateTextures[currentBuffer + 1], "read_only") ]_vars

\* A render of three bounces has reached its end with stateTextures[1]
\* current and painted cells in it.
C19_Witness ==
    /\ pc = "blit" /\ bounces = 3 /\ Len(lightLog) = 3 /\ currentBuffer = 1
    /\ imageUnit[0] = Binding(stateTextures[2], "read_only")
    /\ \E c \in Cells : stateData[stateTextures[2]][c] # EmptyCell

LoadAt(from, to) ==
    /\ pc = from
    /\ \E f \in Files, carryOn \in BOOLEAN :
          LET t == Load(registry, singleClickFlags, f, carryOn)
          IN  /\ file' = f
              /\ registry' = TablesOf(t)
              /\ singleClickFlags' = t.flags
              /\ loadLog' = LogOf(t)
              /\ exception' = IF t.outcome \in {"ok", "crashed"} THEN "none" ELSE t.outcome
              /\ pc' = IF t.outcome = "ok" THEN to
                       ELSE IF t.outcome = "crashed" THEN "crashed" ELSE "catch"
    /\ UNCHANGED <<frame, dt, worldVars, settingVars, i, renderLocals, glVars,
                   inputVars, historyVars, brushSize, selectedBrush, gridVars,
                   lightData, ghostVars, header, lookup, exitStatus, programs>>

\* std::string header = registry.getShaderHeader();
HeaderAt(from, to) ==
    /\ pc = from
    /\ header' = GetShaderHeader(registry)
    /\ pc' = to
    /\ UNCHANGED <<frame, dt, worldVars, settingVars, i, renderLocals, glVars,
                   inputVars, historyVars, brushSize, selectedBrush, singleClickFlags,
                   gridVars, lightData, ghostVars, registry, file, loadLog, lookup,
                   mainVars>>

\* The palette and input code ask the registry about an id: getColor(id)
\* and isSingleClick(id), for ids inside and outside the tables.
LookupAt(from, to) ==
    /\ pc = from
    /\ \E id \in LookupIds :
          lookup' = [called |-> TRUE, id |-> id, color |-> GetColor(registry, id),
                     single |-> IsSingleClick(id)]
    /\ pc' = to
    /\ UNCHANGED <<frame, dt, worldVars, settingVars, i, renderLocals, glVars,
                   inputVars, historyVars, brushSize, selectedBrush, singleClickFlags,
                   gridVars, lightData, ghostVars, registry, file, loadLog, header,
                   mainVars>>

Lookup == LookupAt("published", "answered")

FirstLoad == LoadAt("registry", "loaded")
FirstHeader == HeaderAt("loaded", "published")
Reload == LoadAt("published", "reloaded")
ReloadHeader == HeaderAt("reloaded", "republished")

\* A Registry as constructed, in an App that has built nothing yet.
InitFresh ==
    /\ frame = 0
    /\ dt = 0
    /\ accumulatedTime = 0
    /\ simulationTime = 0
    /\ frameCount = 0
    /\ currentBuffer = 0
    /\ stepsPerFrame = DefaultStepsPerFrame
    /\ lightBounces = DefaultLightBounces
    /\ i = 0
    /\ bounces = 0
    /\ bounce = 0
    /\ finalLightmap = "none"
    /\ imageUnit = [u \in 0..4 |-> NoBinding]
    /\ lastDispatch = NoDispatch
    /\ lastMousePressed = FALSE
    /\ isDrawing = FALSE
    /\ selectedElementId = 1
    /\ phaseLog = <<>>
    /\ brushLog = <<>>
    /\ lightLog = <<>>
    /\ tickStats = ZeroStats
    /\ totals = [ticks |-> 0, time |-> 0, steps |-> NoSteps]
    /\ brushSize = 1
    /\ selectedBrush = "Circle"
    /\ singleClickFlags = {}
    /\ stateData = [t \in {stateTextures[1], stateTextures[2]} |-> ClearData]
    /\ lightData = [t \in {lightmapTexture, lightmapPingPong} |-> Unwritten]
    /\ glError = FALSE
    /\ input = NoInput
    /\ uiEvent = NoUiEvent
    /\ press = NoPress
    /\ registry = FreshRegistry
    /\ file = [status |-> "none", json |-> EmptyJson]
    /\ loadLog = NoLoad
    /\ header = <<>>
    /\ lookup = NoLookup
    /\ exception = "none"
    /\ exitStatus = NotExited
    /\ programs = {}

InitRegistry == pc = "registry" /\ InitFresh

NextRegistry ==
    \/ FirstLoad
    \/ FirstHeader
    \/ Reload
    \/ ReloadHeader
    \/ Lookup

SpecRegistry == InitRegistry /\ [][NextRegistry]_vars

\* ------------------------------------------------------ claims C21 - C30
\* Registry::load has returned normally.
Loaded == pc \in {"loaded", "published", "reloaded", "republished"}

\* Every index the last load used lay inside the tables.
InTable == loadLog.writes \subseteq 0..(loadLog.size - 1)

\* The names the last source declares.
Declared == DOMAIN file.json

\* C21: after Registry::load, getId(n) is the declared id of every declared
\* name n and -1 for every other name, and names[getId(n)] = n for every
\* declared name n.  Stated for the first load of a Registry, with every
\* index inside the tables.
C21_GetIdRoundTrip ==
    (pc \in {"loaded", "published"} /\ InTable) =>
        /\ \A n \in Declared : GetId(registry, n) = file.json[n].id
        /\ \A n \in Names \ Declared : GetId(registry, n) = -1
        /\ \A n \in Declared : registry.names[GetId(registry, n) + 1] = n

\* Two names of the source declare the same id.
HasDuplicateId(j) ==
    \E n, m \in DOMAIN j :
        n # m /\ Contains(j[n], "id") /\ Contains(j[m], "id") /\ j[n].id = j[m].id

\* C22: Registry::load fails, and uploads no table, when two names of the
\* source declare the same id: a load that returned normally had no such
\* source, and no two names map to the same id after it.  Stated for the
\* first load of a Registry, with every index inside the tables.
C22_DuplicateIdRejected ==
    (pc \in {"loaded", "published"} /\ InTable) =>
        /\ ~HasDuplicateId(file.json)
        /\ \A n, m \in DOMAIN registry.nameToId :
              n # m => registry.nameToId[n] # registry.nameToId[m]

\* The ids the last source declares.
DeclaredIds == {file.json[n].id : n \in Declared}

\* C23: after Registry::load the attribute, name and single-click tables
\* have (maximum declared id + 1) entries, the entry of every declared id
\* holds the fields its element declares (defaults for the others), and
\* every undeclared id in 0..max holds the sentinel: magenta, Static, zero
\* density, viscosity, burn chance, lifetime and light, not flammable, not
\* glowing, single-click false, empty name.  Stated for loads that kept
\* every index inside the tables.
C23_TableSizeAndSentinel ==
    (Loaded /\ InTable) =>
        LET size == Len(registry.gpuData)
        IN  /\ size = MaxDeclaredId(file.json) + 1
            /\ Len(registry.names) = size
            /\ singleClickFlags \subseteq 0..(size - 1)
            /\ \A n \in Declared :
                  LET val == file.json[n]
                  IN  /\ registry.gpuData[val.id + 1] = Overlay(DefaultElement, val)
                      /\ registry.names[val.id + 1] = n
                      /\ (val.id \in singleClickFlags) = Value(val, "singleClick", FALSE)
            /\ \A id \in (0..(size - 1)) \ DeclaredIds :
                  /\ registry.gpuData[id + 1] = DefaultElement
                  /\ registry.names[id + 1] = ""
                  /\ id \notin singleClickFlags

\* C24: a lookup with an id outside the table (id < 0 or id >= size)
\* returns magenta from getColor and false from isSingleClick; with an id
\* inside the table it returns the color and the flag stored for that id.
C24_LookupOutsideTable ==
    lookup.called =>
        IF lookup.id < 0 \/ lookup.id >= Len(registry.gpuData)
        THEN lookup.color = Magenta /\ ~lookup.single
        ELSE /\ lookup.color = registry.gpuData[lookup.id + 1].color
             /\ lookup.single = (lookup.id \in singleClickFlags)

\* A lookup of id -1 was answered with the fallback on a table of three
\* entries whose first entry is not magenta and whose last is flagged
\* single-click.
C24_Witness ==
    /\ pc = "answered" /\ Len(registry.gpuData) = 3
    /\ registry.gpuData[1].color # Magenta /\ singleClickFlags = {2}
    /\ lookup.id = -1 /\ lookup.color = Magenta /\ ~lookup.single

\* C25: the generated header holds one constant per declared element name,
\* the uppercased name defined as getId(name), then MAX_ELEMENTS defined as
\* the table size; no symbol is defined twice and no constant stands for an
\* undeclared id.  Stated for the header generated after the first load of
\* a Registry, with every index inside the tables.
C25_HeaderOneConstantPerName ==
    (pc = "published" /\ InTable) =>
        LET n == Len(header)
        IN  /\ n = Cardinality(Declared) + 1
            /\ {header[k] : k \in 1..(n - 1)} =
                    {Define(ToUpper(name), GetId(registry, name)) : name \in Declared}
            /\ header[n] = Define("MAX_ELEMENTS", Len(registry.gpuData))
            /\ \A a, b \in 1..n : a # b => header[a].symbol # header[b].symbol
            /\ \A k \in 1..(n - 1) : header[k].value \in DeclaredIds

\* ------------------------------------------------------------ main, App::init
\* glfwInit, glfwCreateWindow and gladLoadGLLoader: each failure throws.
InitWindow ==
    /\ pc = "main"
    /\ \E failed \in {"none", "Failed to initialize GLFW", "Failed to create GLFW window",
                      "Failed to initialize GLAD"} :
          /\ exception' = failed
          /\ pc' = IF failed = "none" THEN "load" ELSE "catch"
    /\ UNCHANGED <<frame, dt, worldVars, settingVars, i, renderLocals, glVars,
                   inputVars, historyVars, brushSize, selectedBrush, singleClickFlags,
                   gridVars, lightData, ghostVars, registryVars, exitStatus, programs>>

\* registry.load("data/elements.json"), then registry.getShaderHeader()
InitLoad == LoadAt("load", "header")
InitHeader == HeaderAt("header", "world")

\* The shaders World::init loads, and the ones built when the first built
\* loads succeeded: loading stops at the first failure.
WorldShaders == SubSeq(ShaderOrder, 1, 5)
Built(order, built) == {order[k] : k \in 1..built}

\* Variant: World::init does not test the quad shader.
WorldInitReturnsLax(built) == built >= Len(WorldShaders) - 1

\* World::init returns true when every load returned true.
WorldInitReturns(built) == built = Len(WorldShaders)

\* world = std::make_unique<World>(...); if (!world->init(header)) throw
WorldInit ==
    /\ pc = "world"
    /\ \E built \in 0..Len(WorldShaders) :
          /\ programs' = Built(WorldShaders, built)
          /\ IF WorldInitReturns(built)
             THEN pc' = "brush" /\ exception' = "none"
             ELSE pc' = "catch" /\ exception' = "Failed to initialize world"
    /\ UNCHANGED <<frame, dt, worldVars, settingVars, i, renderLocals, glVars,
                   inputVars, historyVars, brushSize, selectedBrush, singleClickFlags,
                   gridVars, lightData, ghostVars, registryVars, exitStatus>>

\* if (!brushShader.loadCompute("shaders/brush.comp", header)) throw;
\* App::init returns and main calls App::run.
LoadBrushShader ==
    /\ pc = "brush"
    /\ \E ok \in BOOLEAN :
          IF ok
          THEN pc' = "loop" /\ programs' = programs \cup {"brush"} /\ exception' = "none"
          ELSE pc' = "catch" /\ programs' = programs
                /\ exception' = "Failed to load brush shader"
    /\ UNCHANGED <<frame, dt, worldVars, settingVars, i, renderLocals, glVars,
                   inputVars, historyVars, brushSize, selectedBrush, singleClickFlags,
                   gridVars, lightData, ghostVars, registryVars, exitStatus>>

\* catch (const std::exception& e) { ...; return 1; }
MainCatch ==
    /\ pc = "catch"
    /\ exitStatus' = 1
    /\ pc' = "exited"
    /\ UNCHANGED <<frame, dt, worldVars, settingVars, i, renderLocals, glVars,
                   inputVars, historyVars, brushSize, selectedBrush, singleClickFlags,
                   gridVars, lightData, ghostVars, registryVars, exception, programs>>

\* app.run() returned; app.shutdown(); return 0;
MainReturn ==
    /\ pc = "done"
    /\ exitStatus' = 0
    /\ programs' = {}
    /\ pc' = "exited"
    /\ UNCHANGED <<frame, dt, worldVars, settingVars, i, renderLocals, glVars,
                   inputVars, historyVars, brushSize, selectedBrush, singleClickFlags,
                   gridVars, lightData, ghostVars, registryVars, exception>>

\* main before app.init(256, 256)
InitMain == pc = "main" /\ InitFresh

NextMain ==
    \/ InitWindow
    \/ InitLoad
    \/ InitHeader
    \/ WorldInit
    \/ LoadBrushShader
    \/ Close
    \/ MainCatch
    \/ MainReturn

SpecMain == InitMain /\ [][NextMain]_vars

\* A fatal-at-init condition: the element source cannot be opened or parsed,
\* an element lacks "id", or a shader was not built.
SourceFault ==
    \/ file.status \in {"missing", "malformed"}
    \/ \E n \in Declared : ~Contains(file.json[n], "id")

\* C26: every fatal-at-init condition aborts startup: when the element
\* source cannot be opened or parsed, an element lacks "id", or one of the
\* simulation, render, lighting, composite, quad and brush shaders fails to
\* build, App::init throws, App::run is never entered and main returns a
\* non-zero status (the load having kept every index inside the tables).
C26_FatalInitAborts ==
    /\ [](pc \in {"loop", "done"} =>
            ~SourceFault /\ programs = Shaders /\ exception = "none")
    /\ [](pc = "exited" =>
            /\ exitStatus \in {0, 1}
            /\ exitStatus = 0 => ~SourceFault /\ exception = "none")
    /\ [][ /\ (pc = "load" /\ SourceFault' /\ InTable') =>
                  (exception' # "none" /\ pc' = "catch")
           /\ (pc = "world" /\ programs' # Built(WorldShaders, Len(WorldShaders))) =>
                  (exception' # "none" /\ pc' = "catch")
           /\ (pc = "brush" /\ programs' # Shaders) =>
                  (exception' # "none" /\ pc' = "catch")
           /\ (pc = "catch") => (exitStatus' = 1 /\ pc' = "exited") ]_vars

\* main returned 1 after the lighting shader failed to build: the registry
\* was loaded, two shaders were built, and the frame loop never ran.
C26_Witness ==
    /\ pc = "exited" /\ exitStatus = 1 /\ exception = "Failed to initialize world"
    /\ programs = {"simulation", "render"} /\ loadLog.outcome = "ok" /\ frame = 0

\* ------------------------------------------------------------ long sessions
\* A World that has executed 2^32 - 2 steps (20 days of ticks at Sim Speed
\* 10 and more): frameCount holds 2^32 - 2 and simulationTime has stopped
\* growing; the rest is as after App::init.  The ticks and the time of
\* totals count from here.
StepsBefore == <<0, -2>>
InitLongRun ==
    /\ pc = "loop"
    /\ frame = 0
    /\ dt = 0
    /\ accumulatedTime = 0
    /\ simulationTime = SaturatedTime
    /\ frameCount = StepsBefore[2]
    /\ currentBuffer = 0
    /\ stepsPerFrame = DefaultStepsPerFrame
    /\ lightBounces = DefaultLightBounces
    /\ i = 0
    /\ bounces = 0
    /\ bounce = 0
    /\ finalLightmap = "none"
    /\ imageUnit = [u \in 0..4 |-> NoBinding]
    /\ lastDispatch = NoDispatch
    /\ lastMousePressed = FALSE
    /\ isDrawing = FALSE
    /\ selectedElementId = 1
    /\ phaseLog = <<>>
    /\ brushLog = <<>>
    /\ lightLog = <<>>
    /\ tickStats = ZeroStats
    /\ totals = [ticks |-> 0, time |-> 0, steps |-> StepsBefore]
    /\ brushSize = 1
    /\ selectedBrush = "Circle"
    /\ singleClickFlags = SingleClickIds
    /\ InitCommon

\* One pointer position over the grid; the "Clear World" button.
HandleInputLongRun == HandleInputOf({<<1, 1>>}, FALSE)
RenderUILongRun == RenderUIOf({NoUiEvent, UiEvent("clear", 0)})

NextLongRun ==
    \/ Close
    \/ PollInput
    \/ HandleInputLongRun
    \/ UpdateBegin
    \/ TickBegin
    \/ StepDispatch
    \/ StepBarrier
    \/ StepCommit
    \/ TickEnd
    \/ UpdateReturn
    \/ RenderUILongRun
    \/ RenderDerive
    \/ LightBounce
    \/ Composite
    \/ Blit
    \/ Present

SpecLongRun == InitLongRun /\ [][NextLongRun]_vars

\* C27: frameCount never decreases across update, render, clear and brush
\* operations, and always equals the number of simulation steps executed
\* since the World was created.
C27_FrameCountMonotone ==
    /\ [](totals.steps = <<0, frameCount>>)
    /\ [][~Less32(frameCount', frameCount)]_vars

\* C28: after App::handleInput returns, isDrawing is true exactly when that
\* call dispatched a brush write; it is false when a button is held with
\* the pointer outside the viewport and when a held single-click element
\* placed nothing.
C28_IsDrawingAccurate ==
    (pc = "update" /\ input.called) => (isDrawing = input.dispatched)

\* C29: Registry::load never indexes outside its tables: every index it
\* uses on the name, attribute and single-click tables lies in
\* [0, table size), whatever the source declares.
C29_LoadIndexInTable ==
    loadLog.outcome # "none" => InTable

\* C30: a second Registry::load replaces the first completely: the
\* name -> id lookup, the name table, the single-click flags and the
\* regenerated header hold only what the second source declares.  Stated
\* for second loads that kept every index inside the tables.
C30_ReloadReplaces ==
    (pc = "republished" /\ InTable) =>
        /\ DOMAIN registry.nameToId = Declared
        /\ \A k \in 1..Len(registry.names) :
              registry.names[k] # "" =>
                  registry.names[k] \in Declared /\ file.json[registry.names[k]].id = k - 1
        /\ \A id \in singleClickFlags :
              \E n \in Declared :
                  file.json[n].id = id /\ Value(file.json[n], "singleClick", FALSE)
        /\ \A k \in 1..(Len(header) - 1) :
              \E n \in Declared : header[k] = Define(ToUpper(n), file.json[n].id)

====
